---------------------------- MODULE Spec2Model ----------------------------
(* Model of p2p/peer.go: the per-peer connection state machine.            *)
(* One main task runs Peer.loop; one task per running subprotocol runs the *)
(* goroutine of startProto; callers of Peer.Disconnect and the framer      *)
(* (MsgChanReadWriter) are the environment of the loop.                    *)
EXTENDS Integers, Sequences, FiniteSets, TLC

\* ------------------------------------------------------------------ bounds
MaxFrames == 2
MaxProtocols == 2
MaxCaps == 2
MaxStartCalls == 2
MaxWrites == 1

\* ------------------------------------------------------- program constants
baseProtocolLength == 16
wholePayloadSize == 65536
NoCrypto == 0
EthCrypto == 1
handshakeMsg == 0
discMsg == 1

CryptoTypes == {NoCrypto, EthCrypto, 2}

DiscNone == "none"
DiscRequested == "DiscRequested"
DiscNetworkError == "DiscNetworkError"
DiscProtocolError == "DiscProtocolError"
DiscQuitting == "DiscQuitting"
DiscSubprotocolError == "DiscSubprotocolError"

errNone == "nil"
errInvalidMsgCode == "errInvalidMsgCode"
errMisc == "errMisc"
errRead == "read error"
errNetwork == "network error"
errHandshake == "handshake error"
errCryptoType == "unrecognised crypto type"
errNotHandled == "protocol not handled by peer"
errWrite == "write error"
errProto == "protocol error"

\* ------------------------------------------------------------ value spaces
BaseName == ""
CapNames == {"a", "b"}
ProtoNames == CapNames \cup {BaseName}
NameOrd == [n \in ProtoNames |-> IF n = "" THEN 0 ELSE IF n = "a" THEN 1 ELSE 2]
Versions == {1, 2}
Lengths == {1, 2}

Caps == [Name : CapNames, Version : Versions]
Protocols == [Name : CapNames, Version : Versions, Length : Lengths]

SeqsUpTo(S, n) == UNION {[1..k -> S] : k \in 0..n}

Range(s) == {s[i] : i \in 1..Len(s)}

\* inputs of the whole-peer specification
ProtoA1 == [Name |-> "a", Version |-> 1, Length |-> 2]
ProtoB1 == [Name |-> "b", Version |-> 1, Length |-> 1]
CapA1 == [Name |-> "a", Version |-> 1]
CapB1 == [Name |-> "b", Version |-> 1]
CapB2 == [Name |-> "b", Version |-> 2]
ProtocolLists == {<<ProtoA1>>}
HelloCaps == {<<CapB1, CapA1>>}

\* inputs of the capability-negotiation specification
AllProtocolLists == SeqsUpTo(Protocols, MaxProtocols)
AllCapLists == SeqsUpTo(Caps, MaxCaps)

Codes == {handshakeMsg, baseProtocolLength + 1, baseProtocolLength + 2}
Sizes == {wholePayloadSize, wholePayloadSize + 1}

NoFrame == [id |-> 0, code |-> 0, size |-> 0]

Callers == {"c1", "c2"}
callerReason == [c \in Callers |-> IF c = "c1" THEN DiscRequested ELSE DiscQuitting]

Getters == {"Identity", "Caps", "PublicKey"}

\* a getter's result slot before the reader has called it
Unread(g) == [read |-> FALSE, value |-> IF g = "Caps" THEN <<>> ELSE "nil"]

NilProto == [up |-> FALSE, offset |-> 0, maxcode |-> 0, version |-> 0]

\* -------------------------------------------------------------------- state
VARIABLES
  pc,              \* position of Peer.loop
  reason, err,     \* named results of Peer.loop
  exitPath,        \* which branch made the loop leave (history)
  defers,          \* deferred calls of Peer.loop, in registration order
  events,          \* teardown events in the order they happened (history)
  CryptoType, runBaseProtocol, protocols,   \* Peer configuration
  crw,             \* p.crw: "nil", "open", "closed"
  cryptoReady, connClosed, closed, activityStopped, graceWaited,
  tokens,          \* read_next tokens held by the framer
  tokensSent,      \* number of unblock <- true executed (history)
  inCh,            \* frame offered on ReadC(), NoFrame if none
  errPending,      \* an error is offered on ErrorC()
  framerFailed,    \* the framer has emitted its error
  wire,            \* frames read from the socket so far (history)
  undrained,       \* ids of frames whose payload is not fully read
  protoDone,       \* length of the buffered channel protoDone (cap 1)
  cur, target, wait,  \* msg, proto and result of the dispatch in progress
  running,         \* p.running
  inClosed,        \* number of close(proto.in) per protocol name
  task,            \* state of the goroutine of startProto per name
  taskErr,         \* err held by that goroutine after Run returned
  holding,         \* id of the streaming frame a subprotocol holds, 0 if none
  received,        \* frames each subprotocol got from its in queue (history)
  protoWG,         \* counter of p.protoWG
  lateStart,       \* names started after closeProtocols closed the queues
  identity, listenAddr, caps,   \* handshake info
  startCalls, started,          \* calls of startSubprotocols and what they started
  caller, callerConnOpen,       \* callers of Disconnect
  accepted,        \* reasons the loop received from p.disc (history)
  written,         \* messages forwarded to the framer writer (history)
  dialAddr,        \* p.dialAddr, nil on an inbound connection
  infolock,        \* holder of p.infolock, "free" if none
  setter,          \* position of a stepwise setHandshakeInfo call
  seen,            \* what a reader got from Identity, Caps and PublicKey
  wcalls           \* calls of writeProtoMsg by users of the peer (history)

vars == <<pc, reason, err, exitPath, defers, events, CryptoType, runBaseProtocol,
          protocols, crw, cryptoReady, connClosed, closed, activityStopped,
          graceWaited, tokens, tokensSent, inCh, errPending, framerFailed, wire,
          undrained, protoDone, cur, target, wait, running, inClosed, task,
          taskErr, holding, received, protoWG, lateStart, identity, listenAddr,
          caps, startCalls, started, caller, callerConnOpen, accepted, written,
          dialAddr, infolock, setter, seen, wcalls>>

confVars == <<CryptoType, runBaseProtocol, protocols>>
resultVars == <<reason, err, exitPath>>
framerVars == <<tokens, tokensSent, inCh, errPending, framerFailed, wire, undrained, protoDone>>
dispatchVars == <<cur, target, wait>>
protoVars == <<running, inClosed, task, taskErr, holding, received, protoWG, lateStart>>
apiVars == <<dialAddr, infolock, setter, seen, wcalls>>
infoVars == <<identity, listenAddr, caps, startCalls, started, apiVars>>
callerVars == <<caller, callerConnOpen, accepted>>
flagVars == <<cryptoReady, connClosed, closed, activityStopped, graceWaited>>
peerVars == <<pc, resultVars, defers, events, confVars, crw, flagVars, framerVars,
              dispatchVars, protoVars, callerVars>>
loopVars == <<peerVars, written>>

\* ------------------------------------------------------------ construction
LoopDefers_Reversed == <<"conn.Close", "close(closed)", "closeProtocols", "activity.Stop">>

\* The deferred calls of loop as registered at its entry; they run last-in
\* first-out when loop returns.
LoopDefers == <<"activity.Stop", "closeProtocols", "close(closed)", "conn.Close">>

InitWith(lists) ==
  /\ pc = "handshake"
  /\ reason = DiscNone /\ err = errNone /\ exitPath = "none"
  /\ defers = <<>> /\ events = <<>>
  /\ CryptoType \in CryptoTypes
  /\ runBaseProtocol \in BOOLEAN
  /\ protocols \in lists
  /\ crw = "nil"
  /\ cryptoReady = FALSE /\ connClosed = FALSE /\ closed = FALSE
  /\ activityStopped = FALSE /\ graceWaited = FALSE
  /\ tokens = 0 /\ tokensSent = 0 /\ inCh = NoFrame
  /\ errPending = FALSE /\ framerFailed = FALSE
  /\ wire = <<>> /\ undrained = {} /\ protoDone = 0
  /\ cur = NoFrame /\ target = BaseName /\ wait = FALSE
  /\ running = [n \in ProtoNames |-> NilProto]
  /\ inClosed = [n \in ProtoNames |-> 0]
  /\ task = [n \in ProtoNames |-> "none"]
  /\ taskErr = [n \in ProtoNames |-> errNone]
  /\ holding = [n \in ProtoNames |-> 0]
  /\ received = [n \in ProtoNames |-> <<>>]
  /\ protoWG = 0
  /\ lateStart = {}
  /\ identity = "nil" /\ listenAddr = "nil" /\ caps = <<>>
  /\ startCalls = 0 /\ started = <<>>
  /\ caller = [c \in Callers |-> "idle"]
  /\ callerConnOpen = [c \in Callers |-> FALSE]
  /\ accepted = <<>>
  /\ written = <<>>
  /\ infolock = "free" /\ setter = "idle"
  /\ seen = [g \in Getters |-> Unread(g)]
  /\ wcalls = <<>>

Init == InitWith(ProtocolLists) /\ dialAddr = "nil"

\* --------------------------------------------------- handleCryptoHandshake
\* Result of handleCryptoHandshake for a crypto type, ok telling whether the
\* library calls of the chosen branch (NewMsgRW, rand.Read, newCryptoId,
\* NewSession) succeeded: the error returned and whether line 358 was reached.
handleCryptoHandshake(ct, ok) ==
  IF ct = NoCrypto \/ ct = EthCrypto
  THEN IF ok THEN [err |-> errNone, messenger |-> TRUE]
             ELSE [err |-> errHandshake, messenger |-> FALSE]
  ELSE [err |-> errCryptoType, messenger |-> TRUE]

LoopHandshake_Graceful ==
  /\ pc = "handshake"
  /\ \E ok \in BOOLEAN :
       LET r == handleCryptoHandshake(CryptoType, ok) IN
       /\ crw' = IF r.messenger THEN "open" ELSE crw
       /\ IF r.err # errNone
          THEN /\ reason' = DiscProtocolError
               /\ err' = r.err
               /\ exitPath' = "handshake"
               /\ defers' = LoopDefers
               /\ pc' = "goodbye"
               /\ UNCHANGED cryptoReady
          ELSE /\ cryptoReady' = TRUE
               /\ defers' = Append(LoopDefers, "crw.Close")
               /\ pc' = "setup"
               /\ UNCHANGED resultVars
  /\ UNCHANGED <<events, confVars, connClosed, closed, activityStopped, graceWaited,
                 framerVars, dispatchVars, protoVars, infoVars, callerVars, written>>

\* loop, lines 210-221
LoopHandshake ==
  /\ pc = "handshake"
  /\ \E ok \in BOOLEAN :
       LET r == handleCryptoHandshake(CryptoType, ok) IN
       /\ crw' = IF r.messenger THEN "open" ELSE crw
       /\ IF r.err # errNone
          THEN /\ reason' = DiscProtocolError
               /\ err' = r.err
               /\ exitPath' = "handshake"
               /\ defers' = LoopDefers
               /\ pc' = "defer"
               /\ UNCHANGED cryptoReady
          ELSE /\ cryptoReady' = TRUE
               /\ defers' = Append(LoopDefers, "crw.Close")
               /\ pc' = "setup"
               /\ UNCHANGED resultVars
  /\ UNCHANGED <<events, confVars, connClosed, closed, activityStopped, graceWaited,
                 framerVars, dispatchVars, protoVars, infoVars, callerVars, written>>

\* ---------------------------------------------------------- protocol table
\* startProto, lines 394-399 and 415: the handle it returns.
startProto(offset, impl) ==
  [up |-> TRUE, offset |-> offset, maxcode |-> impl.Length, version |-> impl.Version]

BaseImpl == [Name |-> BaseName, Version |-> 0, Length |-> baseProtocolLength]

\* sort.Sort(capsByName(caps)), line 374: sort.Sort is not stable, so every
\* arrangement of caps that is ordered by name is a possible outcome.
IsPermutation(s, t) ==
  /\ Len(s) = Len(t)
  /\ \E f \in [1..Len(s) -> 1..Len(s)] :
       /\ \A i, j \in 1..Len(s) : i # j => f[i] # f[j]
       /\ \A i \in 1..Len(s) : s[i] = t[f[i]]

capsByName(cs) ==
  {s \in [1..Len(cs) -> Range(cs)] :
     /\ IsPermutation(s, cs)
     /\ \A i \in 1..Len(s) - 1 : NameOrd[s[i].Name] <= NameOrd[s[i + 1].Name]}

\* the condition of lines 382-384
Matches(proto, cap, run) ==
  /\ proto.Name = cap.Name
  /\ proto.Version = cap.Version
  /\ ~run[cap.Name].up

\* inner loop of lines 381-389: index of the first matching protocol, 0 if none
FirstMatch(protos, cap, run) ==
  IF \E i \in 1..Len(protos) : Matches(protos[i], cap, run)
  THEN CHOOSE i \in 1..Len(protos) :
         /\ Matches(protos[i], cap, run)
         /\ \A j \in 1..(i - 1) : ~Matches(protos[j], cap, run)
  ELSE 0

NextOffset_Stuck(offset, proto) == offset

\* line 386
NextOffset(offset, proto) == offset + proto.Length

\* startSubprotocols, lines 378-390, over the sorted caps from index i on:
\* the new table and the list of what was started.
RECURSIVE startSubprotocolsFrom(_, _, _, _, _, _)
startSubprotocolsFrom(cs, i, protos, run, offset, log) ==
  IF i > Len(cs) THEN [running |-> run, started |-> log]
  ELSE LET cap == cs[i]
           m == FirstMatch(protos, cap, run)
       IN IF m = 0
          THEN startSubprotocolsFrom(cs, i + 1, protos, run, offset, log)
          ELSE startSubprotocolsFrom(cs, i + 1, protos,
                 [run EXCEPT ![cap.Name] = startProto(offset, protos[m])],
                 NextOffset(offset, protos[m]),
                 Append(log, [Name |-> cap.Name, Version |-> protos[m].Version,
                              offset |-> offset, Length |-> protos[m].Length]))

startSubprotocols(cs, protos, run) ==
  startSubprotocolsFrom(cs, 1, protos, run, baseProtocolLength, <<>>)

InWindow_NoLowerBound(proto, code) ==
  proto.up /\ code < proto.offset + proto.maxcode

\* getProto, lines 420-429: the names whose window contains the code. The
\* range over the map visits the entries in no fixed order, so any of them
\* can be the one returned.
InWindow(proto, code) ==
  proto.up /\ code >= proto.offset /\ code < proto.offset + proto.maxcode

getProto_AnyRunning(run, code) == {n \in ProtoNames : run[n].up}

getProto(run, code) == {n \in ProtoNames : InWindow(run[n], code)}

\* the test of line 282
IsWhole(size) == size <= wholePayloadSize

\* discReasonForError
discReasonForError(e) ==
  IF e = errInvalidMsgCode THEN DiscProtocolError ELSE DiscSubprotocolError

QueuesClosed == \E i \in 1..Len(events) : events[i] = "queues closed"

\* the goroutines of the names in S, lines 400-401
Spawned(t, S) == [n \in ProtoNames |-> IF n \in S THEN "run" ELSE t[n]]

\* ------------------------------------------------------------ loop: set-up
\* loop, lines 224-234
LoopSetup ==
  /\ pc = "setup"
  /\ tokens' = tokens + 1
  /\ tokensSent' = tokensSent + 1
  /\ IF runBaseProtocol
     THEN /\ running' = [running EXCEPT ![BaseName] = startProto(0, BaseImpl)]
          /\ task' = Spawned(task, {BaseName})
          /\ protoWG' = protoWG + 1
     ELSE UNCHANGED <<running, task, protoWG>>
  /\ pc' = "select"
  /\ UNCHANGED <<resultVars, defers, events, confVars, crw, flagVars, inCh, errPending,
                 framerFailed, wire, undrained, protoDone, dispatchVars, inClosed,
                 taskErr, holding, received, lateStart, infoVars, callerVars, written>>

\* ----------------------------------------------------------- loop: select
\* case msg := <-in, lines 239-246 with dispatch, lines 277-296, up to the
\* send on proto.in
LoopRecvMsg ==
  /\ pc = "select"
  /\ inCh # NoFrame
  /\ inCh' = NoFrame
  /\ cur' = inCh
  /\ LET ps == getProto(running, inCh.code) IN
     IF ps = {}
     THEN /\ err' = errInvalidMsgCode
          /\ reason' = discReasonForError(errInvalidMsgCode)
          /\ exitPath' = "dispatch"
          /\ pc' = "goodbye"
          /\ UNCHANGED <<target, wait, undrained>>
     ELSE \E n \in ps :
          IF IsWhole(inCh.size)
          THEN \E readOk \in BOOLEAN :
               IF readOk
               THEN /\ undrained' = undrained \ {inCh.id}
                    /\ target' = n /\ wait' = FALSE
                    /\ pc' = "send"
                    /\ UNCHANGED resultVars
               ELSE /\ err' = errRead
                    /\ reason' = discReasonForError(errRead)
                    /\ exitPath' = "dispatch"
                    /\ pc' = "goodbye"
                    /\ UNCHANGED <<target, wait, undrained>>
          ELSE /\ target' = n /\ wait' = TRUE
               /\ pc' = "send"
               /\ UNCHANGED <<resultVars, undrained>>
  /\ UNCHANGED <<defers, events, confVars, crw, flagVars, tokens, tokensSent, errPending,
                 framerFailed, wire, protoDone, protoVars, infoVars, callerVars, written>>

LoopPost_AlwaysUnblock ==
  /\ pc = "post"
  /\ tokens' = tokens + 1
  /\ tokensSent' = tokensSent + 1
  /\ pc' = "select"
  /\ UNCHANGED <<resultVars, defers, events, confVars, crw, flagVars, inCh, errPending,
                 framerFailed, wire, undrained, protoDone, dispatchVars, protoVars,
                 infoVars, callerVars, written>>

\* lines 247-251, after dispatch returned without error
LoopPost ==
  /\ pc = "post"
  /\ IF ~wait
     THEN /\ tokens' = tokens + 1
          /\ tokensSent' = tokensSent + 1
     ELSE UNCHANGED <<tokens, tokensSent>>
  /\ pc' = "select"
  /\ UNCHANGED <<resultVars, defers, events, confVars, crw, flagVars, inCh, errPending,
                 framerFailed, wire, undrained, protoDone, dispatchVars, protoVars,
                 infoVars, callerVars, written>>

LoopProtoDone_Keep ==
  /\ pc = "select"
  /\ protoDone > 0
  /\ tokensSent < MaxFrames + 2
  /\ protoDone' = protoDone
  /\ tokens' = tokens + 1
  /\ tokensSent' = tokensSent + 1
  /\ UNCHANGED <<pc, resultVars, defers, events, confVars, crw, flagVars, inCh,
                 errPending, framerFailed, wire, undrained, dispatchVars, protoVars,
                 infoVars, callerVars, written>>

\* case <-protoDone, lines 252-255
LoopProtoDone ==
  /\ pc = "select"
  /\ protoDone > 0
  /\ protoDone' = protoDone - 1
  /\ tokens' = tokens + 1
  /\ tokensSent' = tokensSent + 1
  /\ UNCHANGED <<pc, resultVars, defers, events, confVars, crw, flagVars, inCh,
                 errPending, framerFailed, wire, undrained, dispatchVars, protoVars,
                 infoVars, callerVars, written>>

LoopRecvErr_Graceful ==
  /\ pc = "select"
  /\ errPending
  /\ errPending' = FALSE
  /\ reason' = DiscNetworkError
  /\ err' = errNetwork
  /\ exitPath' = "errc"
  /\ pc' = "goodbye"
  /\ UNCHANGED <<defers, events, confVars, crw, flagVars, tokens, tokensSent, inCh,
                 framerFailed, wire, undrained, protoDone, dispatchVars, protoVars,
                 infoVars, callerVars, written>>

\* case err := <-errc, lines 257-262
LoopRecvErr ==
  /\ pc = "select"
  /\ errPending
  /\ errPending' = FALSE
  /\ reason' = DiscNetworkError
  /\ err' = errNetwork
  /\ exitPath' = "errc"
  /\ pc' = "defer"
  /\ UNCHANGED <<defers, events, confVars, crw, flagVars, tokens, tokensSent, inCh,
                 framerFailed, wire, undrained, protoDone, dispatchVars, protoVars,
                 infoVars, callerVars, written>>

\* case err = <-p.protoErr, lines 263-265, meeting the send of line 410
LoopProtoErr(n) ==
  /\ pc = "select"
  /\ task[n] = "exit"
  /\ err' = taskErr[n]
  /\ reason' = discReasonForError(taskErr[n])
  /\ exitPath' = "protoErr"
  /\ pc' = "goodbye"
  /\ task' = [task EXCEPT ![n] = "done"]
  /\ taskErr' = [taskErr EXCEPT ![n] = errNone]
  /\ protoWG' = protoWG - 1
  /\ UNCHANGED <<defers, events, confVars, crw, flagVars, framerVars, dispatchVars,
                 running, inClosed, holding, received, lateStart, infoVars,
                 callerVars, written>>

LoopRecvDisc_NoBreak(c) ==
  /\ pc = "select"
  /\ caller[c] = "blocked"
  /\ reason' = callerReason[c]
  /\ exitPath' = "disc"
  /\ caller' = [caller EXCEPT ![c] = "delivered"]
  /\ accepted' = Append(accepted, callerReason[c])
  /\ UNCHANGED <<pc, err, defers, events, confVars, crw, flagVars, framerVars,
                 dispatchVars, protoVars, infoVars, callerConnOpen, written>>

\* case reason = <-p.disc, lines 266-267, meeting the send of line 189
LoopRecvDisc(c) ==
  /\ pc = "select"
  /\ caller[c] = "blocked"
  /\ reason' = callerReason[c]
  /\ exitPath' = "disc"
  /\ pc' = "goodbye"
  /\ caller' = [caller EXCEPT ![c] = "delivered"]
  /\ accepted' = Append(accepted, callerReason[c])
  /\ UNCHANGED <<err, defers, events, confVars, crw, flagVars, framerVars, dispatchVars,
                 protoVars, infoVars, callerConnOpen, written>>

\* ------------------------------------------------ loop: graceful disconnect
\* writeProtoMsg, lines 441-449: the messages forwarded to the writer
writeProtoMsg_NoLookup(run, protoName, code, data) ==
  <<[code |-> code + run[protoName].offset, data |-> data]>>

\* writeProtoMsg, lines 441-449: the frames it forwards to the framer writer
\* through proto.WriteMsg, which adds the window offset to the code.
writeProtoMsg(run, protoName, code, data) ==
  IF run[protoName].up
  THEN <<[code |-> code + run[protoName].offset, data |-> data]>>
  ELSE <<>>

\* proto.WriteMsg hands the frame to the framer writer and returns its
\* result: a transport write error once the framer or the socket is closed.
WriteMsgResult == IF crw = "open" /\ ~connClosed THEN errNone ELSE errWrite

\* the error writeProtoMsg returns, lines 445-448
writeProtoMsgErr(run, protoName) ==
  IF run[protoName].up THEN WriteMsgResult ELSE errNotHandled

\* A user of the peer (a subprotocol, the server) calls writeProtoMsg for
\* protocol n with protocol-local code 0, at any time.
WriteProtoMsgCall(n) ==
  /\ Len(wcalls) < MaxWrites
  /\ LET frames == writeProtoMsg(running, n, 0, "data") IN
     /\ written' = written \o frames
     /\ wcalls' = Append(wcalls, [proto |-> n, handled |-> running[n].up,
                                  closed |-> closed, forwarded |-> Len(frames),
                                  err |-> writeProtoMsgErr(running, n)])
  /\ UNCHANGED <<peerVars, identity, listenAddr, caps, startCalls, started, dialAddr,
                 infolock, setter, seen>>

\* line 271
LoopGoodbye ==
  /\ pc = "goodbye"
  /\ written' = written \o writeProtoMsg(running, BaseName, discMsg, reason)
  /\ pc' = "grace"
  /\ UNCHANGED <<resultVars, defers, events, confVars, crw, flagVars, framerVars,
                 dispatchVars, protoVars, infoVars, callerVars>>

LoopGrace_Skip ==
  /\ pc = "grace"
  /\ pc' = "defer"
  /\ UNCHANGED <<resultVars, defers, events, confVars, crw, flagVars, framerVars,
                 dispatchVars, protoVars, infoVars, callerVars, written>>

\* lines 273-274
LoopGrace ==
  /\ pc = "grace"
  /\ graceWaited' = TRUE
  /\ pc' = "defer"
  /\ UNCHANGED <<resultVars, defers, events, confVars, crw, cryptoReady, connClosed,
                 closed, activityStopped, framerVars, dispatchVars, protoVars,
                 infoVars, callerVars, written>>

\* ----------------------------------------------------------- loop: return
NextDeferred == defers[Len(defers)]
PopDeferred == SubSeq(defers, 1, Len(defers) - 1)

\* defer p.crw.Close(), line 221
DeferCrwClose ==
  /\ pc = "defer" /\ defers # <<>> /\ NextDeferred = "crw.Close"
  /\ crw' = "closed"
  /\ events' = Append(events, "framer closed")
  /\ defers' = PopDeferred
  /\ UNCHANGED <<pc, resultVars, confVars, flagVars, framerVars, dispatchVars,
                 protoVars, infoVars, callerVars, written>>

\* defer p.conn.Close(), line 214
DeferConnClose ==
  /\ pc = "defer" /\ defers # <<>> /\ NextDeferred = "conn.Close"
  /\ connClosed' = TRUE
  /\ events' = Append(events, "socket closed")
  /\ defers' = PopDeferred
  /\ UNCHANGED <<pc, resultVars, confVars, crw, cryptoReady, closed, activityStopped,
                 graceWaited, framerVars, dispatchVars, protoVars, infoVars,
                 callerVars, written>>

\* defer close(p.closed), line 213
DeferCloseClosed ==
  /\ pc = "defer" /\ defers # <<>> /\ NextDeferred = "close(closed)"
  /\ closed' = TRUE
  /\ events' = Append(events, "closed signaled")
  /\ defers' = PopDeferred
  /\ UNCHANGED <<pc, resultVars, confVars, crw, cryptoReady, connClosed,
                 activityStopped, graceWaited, framerVars, dispatchVars, protoVars,
                 infoVars, callerVars, written>>

\* defer p.closeProtocols(), line 212: lines 432-436
DeferCloseProtocols ==
  /\ pc = "defer" /\ defers # <<>> /\ NextDeferred = "closeProtocols"
  /\ inClosed' = [n \in ProtoNames |-> IF running[n].up THEN inClosed[n] + 1
                                       ELSE inClosed[n]]
  /\ events' = Append(events, "queues closed")
  /\ defers' = PopDeferred
  /\ pc' = "wgwait"
  /\ UNCHANGED <<resultVars, confVars, crw, flagVars, framerVars, dispatchVars,
                 running, task, taskErr, holding, received, protoWG, lateStart,
                 infoVars, callerVars, written>>

\* p.protoWG.Wait(), line 437
CloseProtocolsWait ==
  /\ pc = "wgwait"
  /\ protoWG = 0
  /\ pc' = "defer"
  /\ events' = Append(events, "tasks joined")
  /\ UNCHANGED <<resultVars, defers, confVars, crw, flagVars, framerVars, dispatchVars,
                 protoVars, infoVars, callerVars, written>>

\* defer p.activity.Stop(), line 211
DeferActivityStop ==
  /\ pc = "defer" /\ defers # <<>> /\ NextDeferred = "activity.Stop"
  /\ activityStopped' = TRUE
  /\ events' = Append(events, "activity stopped")
  /\ defers' = PopDeferred
  /\ UNCHANGED <<pc, resultVars, confVars, crw, cryptoReady, connClosed, closed,
                 graceWaited, framerVars, dispatchVars, protoVars, infoVars,
                 callerVars, written>>

\* loop has returned to its caller
LoopReturn ==
  /\ pc = "defer" /\ defers = <<>>
  /\ pc' = "done"
  /\ UNCHANGED <<resultVars, defers, events, confVars, crw, flagVars, framerVars,
                 dispatchVars, protoVars, infoVars, callerVars, written>>

\* ------------------------------------------------------- subprotocol tasks
\* Run receives from its in queue: the other end of proto.in <- msg, lines
\* 290 and 295. The base protocol turns to its Hello handler on the first
\* handshakeMsg.
TaskRecv(n) ==
  /\ pc = "send" /\ target = n
  /\ task[n] = "run"
  /\ received' = [received EXCEPT ![n] = Append(@, cur)]
  /\ holding' = [holding EXCEPT ![n] = IF wait THEN cur.id ELSE @]
  /\ task' = [task EXCEPT ![n] =
                IF n = BaseName /\ cur.code - running[n].offset = handshakeMsg
                   /\ startCalls = 0
                THEN "hello" ELSE @]
  /\ pc' = "post"
  /\ UNCHANGED <<resultVars, defers, events, confVars, crw, flagVars, framerVars,
                 dispatchVars, running, inClosed, taskErr, protoWG, lateStart,
                 infoVars, callerVars, written>>

\* Run reads the streaming payload to its end; the eofSignal of line 293
\* then posts on protoDone.
TaskDrain(n) ==
  /\ task[n] \in {"run", "hello"}
  /\ holding[n] # 0
  /\ protoDone < 1
  /\ holding' = [holding EXCEPT ![n] = 0]
  /\ undrained' = undrained \ {holding[n]}
  /\ protoDone' = protoDone + 1
  /\ UNCHANGED <<pc, resultVars, defers, events, confVars, crw, flagVars, tokens,
                 tokensSent, inCh, errPending, framerFailed, wire, dispatchVars,
                 running, inClosed, task, taskErr, received, protoWG, lateStart,
                 infoVars, callerVars, written>>

\* setHandshakeInfo, lines 167-173
setHandshakeInfo(id, laddr, cs) ==
  /\ identity' = id
  /\ listenAddr' = laddr
  /\ caps' = cs

\* The Hello handler of the base protocol: publishes the handshake info and
\* calls startSubprotocols (lines 373-391) with the remote capabilities.
BaseHandleHelloFrom(capLists) ==
  /\ task[BaseName] = "hello"
  /\ holding[BaseName] = 0
  /\ \E cs \in capLists : \E sorted \in capsByName(cs) :
       LET r == startSubprotocols(sorted, protocols, running)
           names == {r.started[i].Name : i \in 1..Len(r.started)}
       IN /\ setHandshakeInfo("id", "laddr", sorted)
          /\ running' = r.running
          /\ started' = r.started
          /\ startCalls' = startCalls + 1
          /\ task' = [Spawned(task, names) EXCEPT ![BaseName] = "run"]
          /\ protoWG' = protoWG + Cardinality(names)
          /\ lateStart' = IF QueuesClosed THEN lateStart \cup names ELSE lateStart
  /\ UNCHANGED <<pc, resultVars, defers, events, confVars, crw, flagVars, framerVars,
                 dispatchVars, inClosed, taskErr, holding, received, callerVars,
                 written, apiVars>>

BaseHandleHello == BaseHandleHelloFrom(HelloCaps)

\* lines 402-408: Run returns, with an error or with nil
RunReturned(e) == IF e = errNone THEN errMisc ELSE e

TaskReturn(n) ==
  /\ task[n] \in {"run", "hello"}
  /\ \E e \in {errNone, errProto} :
       taskErr' = [taskErr EXCEPT ![n] = RunReturned(e)]
  /\ task' = [task EXCEPT ![n] = "exit"]
  /\ UNCHANGED <<pc, resultVars, defers, events, confVars, crw, flagVars, framerVars,
                 dispatchVars, running, inClosed, holding, received, protoWG,
                 lateStart, infoVars, callerVars, written>>

\* Run finds its in queue closed and returns the read error
TaskReadClosed(n) ==
  /\ task[n] \in {"run", "hello"}
  /\ inClosed[n] > 0
  /\ taskErr' = [taskErr EXCEPT ![n] = RunReturned(errRead)]
  /\ task' = [task EXCEPT ![n] = "exit"]
  /\ UNCHANGED <<pc, resultVars, defers, events, confVars, crw, flagVars, framerVars,
                 dispatchVars, running, inClosed, holding, received, protoWG,
                 lateStart, infoVars, callerVars, written>>

\* case <-p.closed, lines 411-413
TaskExitClosed(n) ==
  /\ task[n] = "exit"
  /\ closed
  /\ task' = [task EXCEPT ![n] = "done"]
  /\ taskErr' = [taskErr EXCEPT ![n] = errNone]
  /\ protoWG' = protoWG - 1
  /\ UNCHANGED <<pc, resultVars, defers, events, confVars, crw, flagVars, framerVars,
                 dispatchVars, running, inClosed, holding, received,
                 lateStart, infoVars, callerVars, written>>

\* ------------------------------------------------------------------ framer
\* The framer spends a read_next token, reads one frame off the socket and
\* offers it on ReadC().
FramerReadOf(codes) ==
  /\ crw = "open" /\ ~connClosed /\ ~framerFailed
  /\ tokens > 0
  /\ inCh = NoFrame
  /\ Len(wire) < MaxFrames
  /\ \E c \in codes, s \in Sizes :
       LET f == [id |-> Len(wire) + 1, code |-> c, size |-> s] IN
       /\ inCh' = f
       /\ wire' = Append(wire, f)
       /\ undrained' = undrained \cup {f.id}
  /\ tokens' = tokens - 1
  /\ UNCHANGED <<pc, resultVars, defers, events, confVars, crw, flagVars, tokensSent,
                 errPending, framerFailed, protoDone, dispatchVars, protoVars,
                 infoVars, callerVars, written>>

FramerRead == FramerReadOf(Codes)

\* A transport fault: the framer offers its error on ErrorC(), once.
FramerError ==
  /\ crw = "open" /\ cryptoReady /\ ~framerFailed
  /\ framerFailed' = TRUE
  /\ errPending' = TRUE
  /\ UNCHANGED <<pc, resultVars, defers, events, confVars, crw, flagVars, tokens,
                 tokensSent, inCh, wire, undrained, protoDone, dispatchVars,
                 protoVars, infoVars, callerVars, written>>

\* -------------------------------------------------------------- Disconnect
\* Disconnect, lines 187-188: a caller enters the select. The callers are
\* interchangeable, so c1 is taken to be the first to call.
DisconnectCall(c) ==
  /\ caller[c] = "idle"
  /\ c = "c2" => caller["c1"] # "idle"
  /\ caller' = [caller EXCEPT ![c] = "blocked"]
  /\ callerConnOpen' = [callerConnOpen EXCEPT ![c] = ~connClosed]
  /\ UNCHANGED <<pc, resultVars, defers, events, confVars, crw, flagVars, framerVars,
                 dispatchVars, protoVars, infoVars, accepted, written>>

\* case <-p.closed, line 190
DisconnectClosed(c) ==
  /\ caller[c] = "blocked"
  /\ closed
  /\ caller' = [caller EXCEPT ![c] = "sawClosed"]
  /\ UNCHANGED <<pc, resultVars, defers, events, confVars, crw, flagVars, framerVars,
                 dispatchVars, protoVars, infoVars, callerConnOpen, accepted, written>>

\* ----------------------------------------------------------- specifications
LoopStep ==
  \/ LoopHandshake \/ LoopSetup \/ LoopRecvMsg \/ LoopPost \/ LoopProtoDone
  \/ LoopRecvErr \/ LoopGoodbye \/ LoopGrace
  \/ DeferCrwClose \/ DeferConnClose \/ DeferCloseClosed \/ DeferCloseProtocols
  \/ CloseProtocolsWait \/ DeferActivityStop \/ LoopReturn

Next ==
  \/ LoopStep
  \/ \E n \in ProtoNames : LoopProtoErr(n)
  \/ \E c \in Callers : LoopRecvDisc(c)
  \/ \E n \in ProtoNames : TaskRecv(n)
  \/ \E n \in ProtoNames : TaskDrain(n)
  \/ BaseHandleHello
  \/ \E n \in ProtoNames : TaskReturn(n)
  \/ \E n \in ProtoNames : TaskReadClosed(n)
  \/ \E n \in ProtoNames : TaskExitClosed(n)
  \/ FramerRead
  \/ FramerError
  \/ \E c \in Callers : DisconnectCall(c)
  \/ \E c \in Callers : DisconnectClosed(c)

Spec == Init /\ [][Next]_vars

\* Scheduling: the loop and every started goroutine keep running while they
\* can take a step; a caller blocked in Disconnect returns once closed is
\* closed. Frames, transport faults, Disconnect calls and a spontaneous
\* return of Run are up to the environment.
MainLoop ==
  \/ LoopStep
  \/ \E n \in ProtoNames : LoopProtoErr(n)
  \/ \E c \in Callers : LoopRecvDisc(c)

TaskStep(n) ==
  \/ TaskRecv(n) \/ TaskDrain(n) \/ TaskReadClosed(n) \/ TaskExitClosed(n)
  \/ LoopProtoErr(n)
  \/ n = BaseName /\ BaseHandleHello

Fairness ==
  /\ WF_vars(MainLoop)
  /\ \A n \in ProtoNames : WF_vars(TaskStep(n))
  /\ \A c \in Callers : WF_vars(DisconnectClosed(c))

FairSpec == Spec /\ Fairness

\* Capability negotiation on its own: a server peer with any local protocol
\* list receives one Hello carrying any capability list.
InitMux ==
  /\ InitWith(AllProtocolLists)
  /\ runBaseProtocol
  /\ CryptoType = NoCrypto
  /\ dialAddr = "nil"

MuxFramerRead == FramerReadOf({handshakeMsg})

MuxHandleHello == BaseHandleHelloFrom(AllCapLists)

NextMux ==
  \/ LoopHandshake \/ LoopSetup \/ MuxFramerRead \/ LoopRecvMsg
  \/ TaskRecv(BaseName) \/ TaskDrain(BaseName) \/ LoopPost \/ LoopProtoDone
  \/ MuxHandleHello

SpecMux == InitMux /\ [][NextMux]_vars

\* The peer without Disconnect callers, with users calling writeProtoMsg.
InitWrite == Init /\ CryptoType = NoCrypto

NextWrite ==
  \/ LoopStep
  \/ \E n \in ProtoNames : LoopProtoErr(n)
  \/ \E n \in ProtoNames : TaskRecv(n)
  \/ \E n \in ProtoNames : TaskDrain(n)
  \/ BaseHandleHello
  \/ \E n \in ProtoNames : TaskReturn(n)
  \/ \E n \in ProtoNames : TaskReadClosed(n)
  \/ \E n \in ProtoNames : TaskExitClosed(n)
  \/ FramerRead
  \/ FramerError
  \/ \E n \in {BaseName, "a"} : WriteProtoMsgCall(n)

SpecWrite == InitWrite /\ [][NextWrite]_vars

\* A later Hello: the base protocol calls setHandshakeInfo and
\* startSubprotocols (lines 373-391) again, announcing one capability.
LaterCaps == {<<c>> : c \in Caps}

StartSubprotocolsAgain ==
  /\ task[BaseName] = "run"
  /\ startCalls >= 1 /\ startCalls < MaxStartCalls
  /\ \E cs \in LaterCaps : \E sorted \in capsByName(cs) :
       LET r == startSubprotocols(sorted, protocols, running)
           names == {r.started[i].Name : i \in 1..Len(r.started)}
       IN /\ setHandshakeInfo("id", "laddr", sorted)
          /\ running' = r.running
          /\ started' = started \o r.started
          /\ startCalls' = startCalls + 1
          /\ task' = Spawned(task, names)
          /\ protoWG' = protoWG + Cardinality(names)
          /\ lateStart' = IF QueuesClosed THEN lateStart \cup names ELSE lateStart
  /\ UNCHANGED <<pc, resultVars, defers, events, confVars, crw, flagVars, framerVars,
                 dispatchVars, inClosed, taskErr, holding, received, callerVars,
                 written, apiVars>>

NextCalls == NextMux \/ StartSubprotocolsAgain

SpecCalls == InitMux /\ [][NextCalls]_vars

\* Handshake info under p.infolock: one setHandshakeInfo call taken field by
\* field, and a reader that calls each of Identity, Caps and PublicKey once,
\* in any order. The rest of the peer stands still.
\* line 168
SetLock ==
  /\ setter = "idle"
  /\ infolock = "free"
  /\ infolock' = "setHandshakeInfo"
  /\ setter' = "locked"
  /\ UNCHANGED <<loopVars, identity, listenAddr, caps, startCalls, started, dialAddr,
                 seen, wcalls>>

\* line 169
SetIdentity ==
  /\ setter = "locked"
  /\ identity' = "id"
  /\ setter' = "identity"
  /\ UNCHANGED <<loopVars, listenAddr, caps, startCalls, started, dialAddr, infolock,
                 seen, wcalls>>

\* line 170; NewPeer passes a nil listen address (line 98)
SetListenAddr ==
  /\ setter = "identity"
  /\ \E laddr \in {"nil", "laddr"} : listenAddr' = laddr
  /\ setter' = "listenAddr"
  /\ UNCHANGED <<loopVars, identity, caps, startCalls, started, dialAddr, infolock,
                 seen, wcalls>>

\* line 171
SetCaps ==
  /\ setter = "listenAddr"
  /\ \E cs \in HelloCaps : caps' = cs
  /\ setter' = "caps"
  /\ UNCHANGED <<loopVars, identity, listenAddr, startCalls, started, dialAddr,
                 infolock, seen, wcalls>>

\* line 172
SetUnlock ==
  /\ setter = "caps"
  /\ infolock' = "free"
  /\ setter' = "done"
  /\ UNCHANGED <<loopVars, identity, listenAddr, caps, startCalls, started, dialAddr,
                 seen, wcalls>>

\* the switch of PublicKey, lines 149-156
PublicKeyOf(id, daddr, laddr) ==
  IF id # "nil" THEN "id.pubkey"
  ELSE IF daddr # "nil" THEN "dial.pubkey"
  ELSE IF laddr # "nil" THEN "laddr.pubkey"
  ELSE "nil"

\* what a getter returns from the fields as they are, lines 143, 149-157, 164
GetterValue(g) ==
  IF g = "Identity" THEN identity
  ELSE IF g = "Caps" THEN caps
  ELSE PublicKeyOf(identity, dialAddr, listenAddr)

\* p.infolock.Lock() of a getter, lines 141, 147, 162
GetterLock(g) ==
  /\ ~seen[g].read
  /\ infolock = "free"
  /\ infolock' = g
  /\ UNCHANGED <<loopVars, identity, listenAddr, caps, startCalls, started, dialAddr,
                 setter, seen, wcalls>>

\* the getter reads and its deferred Unlock runs, lines 142-143, 148-157, 163-164
GetterReturn(g) ==
  /\ infolock = g
  /\ seen' = [seen EXCEPT ![g] = [read |-> TRUE, value |-> GetterValue(g)]]
  /\ infolock' = "free"
  /\ UNCHANGED <<loopVars, identity, listenAddr, caps, startCalls, started, dialAddr,
                 setter, wcalls>>

InitInfo ==
  /\ InitWith(ProtocolLists)
  /\ runBaseProtocol
  /\ CryptoType = NoCrypto
  /\ dialAddr \in {"nil", "dial"}

NextInfo ==
  \/ SetLock \/ SetIdentity \/ SetListenAddr \/ SetCaps \/ SetUnlock
  \/ \E g \in Getters : GetterLock(g)
  \/ \E g \in Getters : GetterReturn(g)

SpecInfo == InitInfo /\ [][NextInfo]_vars

\* ------------------------------------------------------------------ claims
WindowEnd(w) == w.offset + w.Length

StartedCaps == {[Name |-> started[i].Name, Version |-> started[i].Version] :
                  i \in 1..Len(started)}

\* capabilities the remote announced for which a local protocol of the same
\* name and version exists
Intersection ==
  {c \in Range(caps) : \E i \in 1..Len(protocols) :
     protocols[i].Name = c.Name /\ protocols[i].Version = c.Version}

WindowsDisjoint ==
  \A i, j \in 1..Len(started) :
    i # j => \/ WindowEnd(started[i]) <= started[j].offset
             \/ WindowEnd(started[j]) <= started[i].offset

WindowsClearOfBase ==
  \A i \in 1..Len(started) : started[i].offset >= baseProtocolLength

WindowsContiguous ==
  /\ Len(started) > 0 => started[1].offset = baseProtocolLength
  /\ \A i \in 1..Len(started) - 1 : started[i + 1].offset = WindowEnd(started[i])

WindowsInCanonicalOrder ==
  \A i \in 1..Len(started) - 1 :
    \/ NameOrd[started[i].Name] < NameOrd[started[i + 1].Name]
    \/ /\ started[i].Name = started[i + 1].Name
       /\ started[i].Version < started[i + 1].Version

\* C3 as stated: after a single startSubprotocols call the windows are
\* disjoint, clear of the base window, contiguous from baseProtocolLength,
\* in canonical capability order, and the started protocols are exactly the
\* intersection of the local and the remote capabilities.
C3_Original ==
  startCalls = 1 =>
    /\ WindowsDisjoint /\ WindowsClearOfBase /\ WindowsContiguous
    /\ WindowsInCanonicalOrder
    /\ StartedCaps = Intersection

\* C3 (amended): after a single startSubprotocols call the windows are
\* disjoint, clear of the base window, contiguous from baseProtocolLength
\* and in ascending name order; every started protocol is in the
\* intersection of local and remote capabilities, and every name of the
\* intersection (none of them running before the call) has exactly one
\* started version.
C3_Windows ==
  startCalls = 1 =>
    /\ WindowsDisjoint /\ WindowsClearOfBase /\ WindowsContiguous
    /\ \A i \in 1..Len(started) - 1 :
         NameOrd[started[i].Name] < NameOrd[started[i + 1].Name]
    /\ StartedCaps \subseteq Intersection
    /\ \A c \in Intersection :
         Cardinality({i \in 1..Len(started) : started[i].Name = c.Name}) = 1
    /\ \A i \in 1..Len(started) :
         /\ running[started[i].Name].offset = started[i].offset
         /\ running[started[i].Name].maxcode = started[i].Length

C3_Witness ==
  /\ startCalls = 1
  /\ Len(started) = 2
  /\ Cardinality(Intersection) = 2

IsPrefix(s, t) == Len(s) <= Len(t) /\ SubSeq(t, 1, Len(s)) = s

Up == {n \in ProtoNames : running[n].up}

\* ---- C1
TerminationBegun ==
  \/ exitPath # "none"
  \/ errPending
  \/ \E n \in ProtoNames : task[n] = "exit"
  \/ \E c \in Callers : caller[c] = "blocked"

PeerClosed ==
  /\ pc = "done"
  /\ connClosed
  /\ \A n \in Up : task[n] = "done" /\ inClosed[n] = 1

\* C1: on every termination path (framer error, handshake failure,
\* subprotocol error or return, Disconnect, dispatch error) the peer
\* eventually reaches Closed: loop has returned, the socket is closed, every
\* started subprotocol task has finished and every inbound queue has been
\* closed exactly once.
C1_EventuallyClosed == TerminationBegun ~> PeerClosed

TeardownEvents == SelectSeq(events, LAMBDA e : e # "tasks joined")

\* C4 as stated: on every exit path the teardown order is activity bus
\* stopped, inbound queues closed, closed broadcast closed, socket closed,
\* framer closed.
C4_Original ==
  pc = "done" =>
    TeardownEvents = <<"activity stopped", "queues closed", "closed signaled",
                       "socket closed", "framer closed">>

\* C4 (amended): on every exit path the teardown order is the reverse one:
\* framer closed (only when the crypto handshake had succeeded), socket
\* closed, closed broadcast closed, inbound queues closed and tasks waited
\* for, activity bus stopped.
C4_TeardownOrder ==
  LET tail == <<"socket closed", "closed signaled", "queues closed",
                "tasks joined", "activity stopped">>
      full == IF exitPath = "handshake" THEN tail ELSE <<"framer closed">> \o tail
  IN /\ exitPath # "none" => IsPrefix(events, full)
     /\ exitPath = "none" => events = <<>>
     /\ pc = "done" => events = full

C4_Witness ==
  /\ pc = "done"
  /\ exitPath \in {"disc", "protoErr", "dispatch", "errc"}
  /\ Len(events) = 6

\* ---- C5
Owns(w, code) == w.up /\ w.offset <= code /\ code < w.offset + w.maxcode

WireFor(n) == SelectSeq(wire, LAMBDA f : Owns(running[n], f.code))

\* C5: what each subprotocol has received on its inbound queue is, in wire
\* order and without loss or duplication, the frames on the wire whose code
\* lies in its window: always a prefix of them, and all of them whenever the
\* running loop is back at its select with no frame pending.
C5_WireOrder ==
  \A n \in ProtoNames :
    /\ IsPrefix(received[n], WireFor(n))
    /\ (pc = "select" /\ inCh = NoFrame) => received[n] = WireFor(n)

C5_Witness ==
  /\ pc = "select" /\ inCh = NoFrame
  /\ Len(wire) = MaxFrames
  /\ received["a"] # <<>>
  /\ received[BaseName] # <<>>
  /\ \E i \in 1..Len(wire) : wire[i].size > wholePayloadSize
  /\ \E i \in 1..Len(wire) : wire[i].size <= wholePayloadSize

\* ---- C6
\* C6: when loop has returned every entry of the running table has had its
\* inbound queue closed exactly once and its task has finished, and no
\* subprotocol is registered or started after closeProtocols closed the
\* queues.
C6_AllClosedOnce ==
  /\ pc = "done" => \A n \in Up : inClosed[n] = 1 /\ task[n] = "done"
  /\ lateStart = {}

\* ---- C7
\* C7: Disconnect does not wait until the connection is closed: no call made
\* while the socket was open is still blocked once the socket is closed.
C7_NoWaitForClose ==
  \A c \in Callers : (caller[c] = "blocked" /\ connClosed) => ~callerConnOpen[c]

\* ---- C8
DiscFrames == SelectSeq(written, LAMBDA m : m.code = discMsg)

\* C8: a call of Disconnect ends either with its reason received by the
\* loop or with the caller seeing closed; the loop receives at most one
\* reason from disc, and that reason is the one loop returns and the one of
\* the Disconnect frame it writes; the reasons of other calls are dropped.
C8_FirstReasonWins ==
  /\ Len(accepted) <= 1
  /\ \A c \in Callers : caller[c] = "delivered" => accepted = <<callerReason[c]>>
  /\ \A c \in Callers : caller[c] = "sawClosed" => closed
  /\ accepted # <<>> =>
       /\ reason = accepted[1]
       /\ exitPath = "disc"
       /\ \A i \in 1..Len(DiscFrames) : DiscFrames[i].data = accepted[1]
       /\ (pc \in {"grace", "defer", "wgwait", "done"} /\ running[BaseName].up)
            => Len(DiscFrames) = 1

C8_Witness ==
  /\ pc = "done"
  /\ caller["c2"] = "delivered"
  /\ caller["c1"] = "sawClosed"
  /\ callerConnOpen["c1"]
  /\ DiscFrames = <<[code |-> discMsg, data |-> DiscQuitting]>>

\* ---- C9
\* C9: when the loop receives the framer's error it returns DiscNetworkError
\* with that error, writes no Disconnect frame and does not wait the grace
\* period before the socket is closed.
C9_NetworkError ==
  exitPath = "errc" =>
    /\ reason = DiscNetworkError
    /\ err = errNetwork
    /\ written = <<>>
    /\ ~graceWaited
    /\ pc \in {"defer", "wgwait", "done"}

C9_Witness ==
  /\ exitPath = "errc"
  /\ pc = "done"
  /\ connClosed
  /\ running[BaseName].up

\* ---- C10
\* C10: when handleCryptoHandshake fails, loop returns DiscProtocolError with
\* that error, writes no Disconnect frame, waits no grace period, starts no
\* base protocol or subprotocol and sends no read_next token; when it has
\* returned the socket is closed and closed is signaled.
C10_HandshakeFailure ==
  exitPath = "handshake" =>
    /\ reason = DiscProtocolError
    /\ err \in {errHandshake, errCryptoType}
    /\ written = <<>>
    /\ ~graceWaited
    /\ Up = {}
    /\ \A n \in ProtoNames : task[n] = "none"
    /\ tokensSent = 0 /\ tokens = 0
    /\ ~cryptoReady
    /\ pc \in {"defer", "wgwait", "done"}
    /\ pc = "done" => connClosed /\ closed

C10_Witness ==
  /\ exitPath = "handshake"
  /\ pc = "done"
  /\ connClosed /\ closed
  /\ runBaseProtocol
  /\ err = errHandshake

\* ---- C11
GracefulExit == exitPath \in {"protoErr", "dispatch", "disc"}

PastGoodbye == pc \in {"grace", "defer", "wgwait", "done"}

GraceBeforeClose ==
  /\ pc = "goodbye" => written = <<>>
  /\ pc \in {"goodbye", "grace"} => ~graceWaited /\ ~connClosed
  /\ pc \in {"defer", "wgwait", "done"} => graceWaited
  /\ connClosed => graceWaited

\* C11 as stated: whenever the loop leaves its select on a subprotocol
\* error, a dispatch error or a Disconnect request, a Disconnect(reason)
\* message is written on the base-protocol window, then the grace period
\* elapses, and only then the socket is closed.
C11_Original ==
  GracefulExit =>
    /\ PastGoodbye => written = <<[code |-> discMsg, data |-> reason]>>
    /\ GraceBeforeClose

\* C11 (amended): as stated, except that the Disconnect(reason) message is
\* written only when the base protocol is in the running table; when it is
\* not, nothing is written and the grace period and the close still follow.
C11_GracefulDisconnect ==
  GracefulExit =>
    /\ PastGoodbye =>
         written = IF running[BaseName].up
                   THEN <<[code |-> discMsg, data |-> reason]>> ELSE <<>>
    /\ GraceBeforeClose
    /\ exitPath = "protoErr" =>
         err \in {errMisc, errProto, errRead} /\ reason = DiscSubprotocolError

C11_Witness ==
  /\ pc = "done" /\ connClosed
  /\ exitPath = "protoErr"
  /\ err = errMisc
  /\ written = <<[code |-> discMsg, data |-> DiscSubprotocolError]>>

\* ---- C12
Delivered == UNION {{received[n][i].id : i \in 1..Len(received[n])} : n \in ProtoNames}

DeliveredOnce ==
  /\ \A n \in ProtoNames : \A i, j \in 1..Len(received[n]) :
       i # j => received[n][i].id # received[n][j].id
  /\ \A n, m \in ProtoNames : \A i \in 1..Len(received[n]), j \in 1..Len(received[m]) :
       n # m => received[n][i].id # received[m][j].id

DeliveredToOwner ==
  /\ \A n \in ProtoNames : \A i \in 1..Len(received[n]) :
       Owns(running[n], received[n][i].code)
  /\ DeliveredOnce

DispatchStep ==
  /\ (pc = "select" /\ pc' = "send") => Owns(running[target'], inCh.code)
  /\ (pc = "select" /\ pc' = "goodbye" /\ err' = errInvalidMsgCode)
       => \A n \in ProtoNames : ~Owns(running[n], inCh.code)

InvalidCodeExit == exitPath = "dispatch" /\ err = errInvalidMsgCode

\* C12 as stated: dispatch delivers a message to the running subprotocol
\* whose window contains its code and to no other; when no running window
\* contains the code it fails with InvalidMsgCode, delivers the message to no
\* queue, and the peer disconnects gracefully: goodbye frame written, socket
\* closed after the grace period.
C12_Original ==
  /\ [](DeliveredToOwner)
  /\ [][DispatchStep]_vars
  /\ [](InvalidCodeExit =>
          /\ cur.id \notin Delivered
          /\ reason = DiscProtocolError
          /\ PastGoodbye => written = <<[code |-> discMsg, data |-> DiscProtocolError]>>
          /\ GraceBeforeClose)

\* C12 (amended): as stated, except that the goodbye frame is written only
\* when the base protocol is in the running table.
C12_Dispatch ==
  /\ [](DeliveredToOwner)
  /\ [][DispatchStep]_vars
  /\ [](InvalidCodeExit =>
          /\ cur.id \notin Delivered
          /\ reason = DiscProtocolError
          /\ PastGoodbye =>
               written = IF running[BaseName].up
                         THEN <<[code |-> discMsg, data |-> DiscProtocolError]>>
                         ELSE <<>>
          /\ GraceBeforeClose)

C12_Witness ==
  /\ InvalidCodeExit
  /\ pc = "done" /\ connClosed
  /\ running["a"].up
  /\ cur.code = running["a"].offset + running["a"].maxcode
  /\ received[BaseName] # <<>>
  /\ written = <<[code |-> discMsg, data |-> DiscProtocolError]>>

\* ---- C14
HighestMatching(name) ==
  CHOOSE v \in Versions :
    /\ \E c \in Intersection : c.Name = name /\ c.Version = v
    /\ \A c \in Intersection : c.Name = name => c.Version <= v

\* C14: when the remote capabilities and the local protocols share several
\* versions of one protocol name, startSubprotocols starts the highest
\* shared version of that name and no other version of it.
C14_HighestVersion ==
  startCalls = 1 =>
    \A c \in Intersection :
      /\ Cardinality({i \in 1..Len(started) : started[i].Name = c.Name}) = 1
      /\ \A i \in 1..Len(started) :
           started[i].Name = c.Name => started[i].Version = HighestMatching(c.Name)

\* ---- C20
\* the framer's tasks exist from NewMessenger until its Close
FramerRunning == IF crw = "open" THEN {"framer"} ELSE {}

\* C20: handleCryptoHandshake installs a framer only when it returns no
\* error; on the handshake-failure exit of loop, which never closes the
\* framer, no framer exists.
C20_FramerOnlyOnSuccess ==
  exitPath = "handshake" => crw = "nil" /\ FramerRunning = {}

\* ---- C17
\* C17: no subprotocol task is leaked: once a subprotocol's Run has returned,
\* its task eventually finishes (its error taken by the loop on protoErr, or
\* the closed broadcast observed), so the wait of closeProtocols completes.
C17_NoTaskLeak ==
  \A n \in ProtoNames : (task[n] = "exit") ~> (task[n] = "done")

\* ---- C16
\* frames whose dispatch returned nil: their send on proto.in was taken
Dispatched == Cardinality(Delivered)

\* dispatched frames whose token is still owed: a small one while the loop
\* is between dispatch and its send on unblock, a large one until its
\* completion signal has been taken from protoDone
SmallOwed == IF pc = "post" /\ ~wait THEN 1 ELSE 0

LargeOwed == Cardinality(Delivered \cap undrained) + protoDone

TokenAccount ==
  IF pc \in {"handshake", "setup"} \/ exitPath = "handshake"
  THEN tokensSent = 0
  ELSE tokensSent = 1 + Dispatched - SmallOwed - LargeOwed

TokenStep ==
  /\ tokensSent' # tokensSent =>
       /\ tokensSent' = tokensSent + 1
       /\ \/ pc = "setup"
          \/ pc = "post" /\ ~wait
          \/ pc = "select" /\ protoDone = 1 /\ protoDone' = 0
  /\ pc = "post" /\ pc' # "post" =>
       /\ pc' = "select"
       /\ tokensSent' = tokensSent + (IF wait THEN 0 ELSE 1)

\* C16: the loop sends exactly one read_next token per dispatched frame: for
\* a small frame as its next step after dispatch, for a large frame only on
\* taking that frame's single protoDone signal; with the initial token, the
\* tokens sent never exceed one plus the frames dispatched.
C16_OneTokenPerFrame ==
  /\ [](TokenAccount)
  /\ [](tokensSent <= 1 + Dispatched /\ protoDone <= 1)
  /\ [][TokenStep]_vars

C16_Witness ==
  /\ pc = "select"
  /\ Dispatched = 2
  /\ tokensSent = 3
  /\ \E n \in ProtoNames : \E i \in 1..Len(received[n]) : ~IsWhole(received[n][i].size)
  /\ \E n \in ProtoNames : \E i \in 1..Len(received[n]) : IsWhole(received[n][i].size)

\* ---- C13
AllRead == \A g \in Getters : seen[g].read

SeenTriple(id, cs, key) ==
  /\ seen["Identity"].value = id
  /\ seen["Caps"].value = cs
  /\ seen["PublicKey"].value = key

\* C13: a reader that reads identity, capabilities and public key through
\* Identity, Caps and PublicKey while setHandshakeInfo runs sees either the
\* three values from before the call or the three values the call wrote,
\* never some of each.
C13_AtomicInfo ==
  AllRead =>
    \/ SeenTriple("nil", <<>>, PublicKeyOf("nil", dialAddr, "nil"))
    \/ /\ setter = "done"
       /\ SeenTriple(identity, caps, PublicKeyOf(identity, dialAddr, listenAddr))

\* ---- C15
RunningDisjoint ==
  \A n, m \in ProtoNames :
    (n # m /\ running[n].up /\ running[m].up) =>
       \/ running[n].offset + running[n].maxcode <= running[m].offset
       \/ running[m].offset + running[m].maxcode <= running[n].offset

KeepsWindows == \A n \in ProtoNames : running[n].up => running'[n] = running[n]

\* C15: over any sequence of startSubprotocols calls every running
\* subprotocol keeps its window, a capability whose name is already running
\* is ignored, and all running windows stay pairwise non-overlapping.
C15_AppendOnly ==
  /\ [][KeepsWindows]_vars
  /\ [](RunningDisjoint)

\* ---- C18
\* C18: every writeProtoMsg call made after closed was signaled returns an
\* error and forwards nothing to the framer writer.
C18_NoWriteAfterClosed ==
  \A i \in 1..Len(wcalls) :
    wcalls[i].closed => wcalls[i].err # errNone /\ wcalls[i].forwarded = 0

\* ---- C19
UnhandledCallsFail ==
  \A i \in 1..Len(wcalls) :
    ~wcalls[i].handled => wcalls[i].err = errNotHandled /\ wcalls[i].forwarded = 0

GoodbyeStep ==
  pc = "goodbye" /\ pc' # "goodbye" =>
    /\ pc' = "grace"
    /\ reason' = reason /\ err' = err
    /\ written' = IF running[BaseName].up
                  THEN Append(written, [code |-> discMsg, data |-> reason])
                  ELSE written

\* C19: writeProtoMsg returns an error and writes nothing when the named
\* protocol is not in the running table; so with runBaseProtocol false the
\* graceful-disconnect step writes no Disconnect frame, its error changes
\* neither err nor reason, and loop still waits the grace period and
\* returns the reason.
C19_NotRunning ==
  /\ [](UnhandledCallsFail)
  /\ [][GoodbyeStep]_vars
  /\ [](~runBaseProtocol =>
          /\ written = <<>>
          /\ GracefulExit /\ pc = "done" =>
               /\ graceWaited
               /\ reason = discReasonForError(err)
               /\ err \in {errInvalidMsgCode, errRead})

C19_Witness ==
  /\ ~runBaseProtocol
  /\ pc = "done"
  /\ exitPath = "dispatch" /\ reason = DiscProtocolError
  /\ graceWaited /\ written = <<>>
  /\ wcalls # <<>> /\ wcalls[1].proto = BaseName /\ wcalls[1].err = errNotHandled

=============================================================================
